---- MODULE Spec2Model ----
(***************************************************************************)
(* Quote-analysis backend: QuotesService (batch validation, business       *)
(* rules, ranking), AIServiceClient (outbound call, response translation,  *)
(* error translation, health probe) and the /quotes/health controller.     *)
(*                                                                         *)
(* The repository holds two revisions of the service and of the client.    *)
(* Both are modelled; svc and cli say which revision is deployed.          *)
(*                                                                         *)
(* JavaScript values:                                                      *)
(*   - a string is a sequence of text segments, concatenation is \o;       *)
(*   - number | null is Num(n) or Null;                                    *)
(*   - an array that the untyped upstream JSON may omit is Arr(s) or       *)
(*     Undefined; reading .length or calling .map on Undefined throws a    *)
(*     TypeError;                                                          *)
(*   - vendor names are numbered: quote i of a batch is from vendor i.     *)
(***************************************************************************)
EXTENDS Integers, Sequences, FiniteSets, Bags, TLC

VARIABLES
    svc,        \* deployed QuotesService revision: "rules" | "inline"
    cli,        \* deployed AIServiceClient revision: "handleError" | "catch"
    pc,         \* per inbound request: where its handler stands
    quotes,     \* per request: the submitted batch
    posted,     \* per request: the payloads POSTed to /analyze so far
    response,   \* per request: what the outbound call settled with
    result,     \* per request: the AnalysisResultDto held / returned
    error,      \* per request: the exception the handler threw
    health,     \* per request: the body returned by GET /quotes/health
    aiHealthy,  \* per request: the boolean AIServiceClient.checkHealth returned
    input,      \* rule engine alone: the analysis handed to the rules
    output,     \* rule engine alone: what the rules returned
    again,      \* rule engine alone: what the rules returned for `output`
    outcome     \* rule engine alone: "none" | "returned" | "threw" | "reapplied"

vars == <<svc, cli, pc, quotes, posted, response, result, error, health,
          aiHealthy, input, output, again, outcome>>

reqVars == <<pc, quotes, posted, response, result, error, health, aiHealthy>>
ruleVars == <<input, output, again, outcome>>

-----------------------------------------------------------------------------
\* Bounds of the model.

\* Largest batch a caller submits.
MaxBatch == 12
\* Largest number of analyses in an upstream reply.
MaxAnalyses == 3

-----------------------------------------------------------------------------
\* Program constants.

MinQuotes == 2
MaxQuotes == 10
PricePenalty == 10
StrengthsPenalty == 5
RisksPenalty == 10
MinStrengths == 2
MaxRisks == 3
BAD_REQUEST == 400
SERVICE_UNAVAILABLE == 503
GATEWAY_TIMEOUT == 504
INTERNAL_SERVER_ERROR == 500

-----------------------------------------------------------------------------
\* JavaScript values.

Null == [null |-> TRUE, n |-> 0]
Num(n) == [null |-> FALSE, n |-> n]

Undefined == [defined |-> FALSE, items |-> <<>>]
Arr(s) == [defined |-> TRUE, items |-> s]

\* Mutant: the floor is dropped.
mathMaxNoFloor(a, b) == b

mathMax(a, b) == IF a >= b THEN a ELSE b

\* Array.prototype.join
RECURSIVE join(_, _)
join(parts, sep) ==
    IF parts = <<>> THEN <<>>
    ELSE IF Len(parts) = 1 THEN <<parts[1]>>
    ELSE <<parts[1], sep>> \o join(Tail(parts), sep)

-----------------------------------------------------------------------------
\* QuotesService: the business rules.

NotePrice == "Prix non spécifié (-10 pts)"
NoteStrengths == "Peu d'avantages identifiés (-5 pts)"
NoteRisks == "Nombreux risques détectés (-10 pts)"
SeparatorRules == " | Ajustements métier : "
SeparatorInline == " | Ajustements : "

\* Mutant: !analysis.price, which a price of 0 satisfies too.
rule1Falsy(analysis) == analysis.price.null \/ analysis.price.n = 0

\* Règle 1 : analysis.price === null
rule1(analysis) == analysis.price.null

\* Règle 2 : analysis.strengths.length < 2
rule2(analysis) == Len(analysis.strengths.items) < MinStrengths

\* Mutant: analysis.risks.length >= 3
rule3AtLeast(analysis) == Len(analysis.risks.items) >= MaxRisks

\* Règle 3 : analysis.risks.length > 3
rule3(analysis) == Len(analysis.risks.items) > MaxRisks

\* Reading .length of an undefined list throws a TypeError.
rulesThrow(analysis) ==
    ~analysis.strengths.defined \/ ~analysis.risks.defined

\* Mutant: the rules are tested in the order 3, 2, 1.
penaltiesReversed(analysis) ==
    (IF rule3(analysis) THEN <<NoteRisks>> ELSE <<>>)
    \o (IF rule2(analysis) THEN <<NoteStrengths>> ELSE <<>>)
    \o (IF rule1(analysis) THEN <<NotePrice>> ELSE <<>>)

\* The penalties array after the three rules.
penaltiesOf(analysis) ==
    (IF rule1(analysis) THEN <<NotePrice>> ELSE <<>>)
    \o (IF rule2(analysis) THEN <<NoteStrengths>> ELSE <<>>)
    \o (IF rule3(analysis) THEN <<NoteRisks>> ELSE <<>>)

\* adjustedScore after the three rules and the floor.
scoreOf(analysis) ==
    LET s0 == analysis.score
        s1 == IF rule1(analysis) THEN s0 - PricePenalty ELSE s0
        s2 == IF rule2(analysis) THEN s1 - StrengthsPenalty ELSE s1
        s3 == IF rule3(analysis) THEN s2 - RisksPenalty ELSE s2
    IN  mathMax(0, s3)

\* Mutant: nothing is appended to a reasoning that already holds the separator.
reasoningOfOnce(analysis, separator) ==
    LET penalties == penaltiesOf(analysis)
        present == \E i \in 1..Len(analysis.scoreReasoning) :
                       analysis.scoreReasoning[i] = separator
    IN  IF Len(penalties) > 0 /\ ~present
        THEN analysis.scoreReasoning \o <<separator>> \o join(penalties, ", ")
        ELSE analysis.scoreReasoning

\* updatedReasoning: the reasoning with the penalties appended.
reasoningOf(analysis, separator) ==
    LET penalties == penaltiesOf(analysis)
    IN  IF Len(penalties) > 0
        THEN analysis.scoreReasoning \o <<separator>> \o join(penalties, ", ")
        ELSE analysis.scoreReasoning

\* QuotesService.applyBusinessRules
applyBusinessRules(analysis) ==
    [analysis EXCEPT !.score = scoreOf(analysis),
                     !.scoreReasoning = reasoningOf(analysis, SeparatorRules)]

\* The map callback of the earlier revision of QuotesService.analyzeQuotes.
inlineRules(analysis) ==
    [analysis EXCEPT !.score = scoreOf(analysis),
                     !.scoreReasoning = reasoningOf(analysis, SeparatorInline)]

\* The rules of the deployed revision.
adjust(analysis) ==
    IF svc = "rules" THEN applyBusinessRules(analysis) ELSE inlineRules(analysis)

-----------------------------------------------------------------------------
\* The rule engine alone: one analysis in, one analysis out.

RuleScores == {-30, -3, 0, 3, 5, 9, 10, 24, 25, 26, 80, 100, 130}
RulePrices == {Null, Num(0), Num(100)}
RuleStrengths ==
    {Undefined, Arr(<<>>), Arr(<<"a">>), Arr(<<"a", "b">>), Arr(<<"c", "b", "a">>)}
RuleRisks ==
    {Arr(<<>>), Arr(<<"x", "y", "z">>), Arr(<<"x", "y", "z", "w">>)}
RuleReasonings == {<<>>, <<"Offre solide">>}

RuleInputs ==
    [vendorName : {1}, price : RulePrices, currency : {"EUR"},
     strengths : RuleStrengths, weaknesses : {Arr(<<"lent">>)},
     risks : RuleRisks, score : RuleScores, scoreReasoning : RuleReasonings]

NoAnalysis ==
    [vendorName |-> 0, price |-> Null, currency |-> "",
     strengths |-> Undefined, weaknesses |-> Undefined, risks |-> Undefined,
     score |-> 0, scoreReasoning |-> <<>>]

\* The object handed to the rules, after the call: applyBusinessRules builds
\* a new object and leaves its argument alone; the earlier revision appends
\* the segment to analysis.scoreReasoning in place before it copies the object.
argumentAfter(analysis) ==
    IF svc = "rules"
    THEN analysis
    ELSE [analysis EXCEPT
            !.scoreReasoning = reasoningOf(analysis, SeparatorInline)]

\* One call of the rules on `input`. A TypeError is raised by the second or
\* the third rule, before anything is written.
ApplyRules ==
    /\ outcome = "none"
    /\ IF rulesThrow(input)
       THEN /\ outcome' = "threw"
            /\ output' = output
            /\ input' = input
       ELSE /\ outcome' = "returned"
            /\ output' = adjust(input)
            /\ input' = argumentAfter(input)
    /\ UNCHANGED <<svc, cli, again>>
    /\ UNCHANGED reqVars

\* A second call of the rules, on the analysis the first call returned; no
\* caller in the repository does this, the step is the direct call
\* adjust(adjust(a)).
ApplyAgain ==
    /\ outcome = "returned"
    /\ again' = adjust(output)
    /\ output' = argumentAfter(output)
    /\ outcome' = "reapplied"
    /\ UNCHANGED <<svc, cli, input>>
    /\ UNCHANGED reqVars

-----------------------------------------------------------------------------
\* Exceptions.

NoError == [name |-> "", status |-> 0, message |-> <<>>, error |-> ""]

\* new BadRequestException(message)
BadRequestException(message) ==
    [name |-> "BadRequestException", status |-> BAD_REQUEST,
     message |-> <<message>>, error |-> "Bad Request"]

\* new HttpException({statusCode, message, error}, status)
HttpException(status, message, label) ==
    [name |-> "HttpException", status |-> status,
     message |-> message, error |-> label]

\* A TypeError that no handler of the application catches: it carries no
\* HTTP status of its own.
TypeError ==
    [name |-> "TypeError", status |-> 0,
     message |-> <<"Cannot read properties of undefined">>, error |-> ""]

-----------------------------------------------------------------------------
\* What the outbound call can settle with.

NoBody == [null |-> TRUE, detail |-> "", message |-> ""]
NoData == [analyses |-> Undefined, recommendation |-> ""]
NoAxiosError ==
    [isAxiosError |-> FALSE, code |-> "", hasResponse |-> FALSE, status |-> 0,
     data |-> NoBody, message |-> ""]
NoResponse == [settled |-> "pending", data |-> NoData, err |-> NoAxiosError]

\* The call threw before any response: the axios error codes.
NetworkError(code) ==
    [isAxiosError |-> TRUE, code |-> code, hasResponse |-> FALSE, status |-> 0,
     data |-> NoBody, message |-> code]

\* The upstream answered with a status outside 2xx: axios rejects with the
\* response attached and the code ERR_BAD_REQUEST (4xx) or ERR_BAD_RESPONSE.
StatusError(status, body) ==
    [isAxiosError |-> TRUE,
     code |-> IF status < 500 THEN "ERR_BAD_REQUEST" ELSE "ERR_BAD_RESPONSE",
     hasResponse |-> TRUE, status |-> status, data |-> body,
     message |-> "Request failed"]

\* The try block itself threw (a malformed payload): not an axios error.
ThrownInTry ==
    [isAxiosError |-> FALSE, code |-> "", hasResponse |-> FALSE, status |-> 0,
     data |-> NoBody, message |-> "Cannot read properties of undefined"]

NetworkCodes ==
    {"ECONNREFUSED", "ENOTFOUND", "ECONNABORTED", "ETIMEDOUT", "ECONNRESET"}

\* Error bodies: FastAPI's {detail}, a {message}, an empty object, JSON null.
ErrorBodies ==
    {[null |-> FALSE, detail |-> "quota", message |-> ""],
     [null |-> FALSE, detail |-> "", message |-> "boom"],
     [null |-> FALSE, detail |-> "", message |-> ""],
     NoBody}

ErrorStatuses == {422, 503}

Rejections ==
    {[settled |-> "rejected", data |-> NoData, err |-> NetworkError(c)] :
        c \in NetworkCodes}
    \cup
    {[settled |-> "rejected", data |-> NoData, err |-> StatusError(st, b)] :
        st \in ErrorStatuses, b \in ErrorBodies}

\* Raw analyses (upstream field names) the upstream may put in a reply.
RawAnalysis(v, p, st, rk, sc) ==
    [vendor_name |-> v, price |-> p, currency |-> "EUR", strengths |-> st,
     weaknesses |-> Arr(<<"lent">>), risks |-> rk, score |-> sc,
     score_reasoning |-> <<"Offre solide">>]

Pool ==
    {RawAnalysis(1, Num(100), Arr(<<"a", "b", "c">>), Arr(<<>>), 80),
     RawAnalysis(2, Null, Arr(<<"a">>), Arr(<<"x", "y", "z", "w">>), 80),
     RawAnalysis(1, Num(0), Arr(<<"b", "a">>), Arr(<<"x", "y", "z">>), 55),
     RawAnalysis(3, Null, Arr(<<"a", "b">>), Arr(<<>>), 5),
     RawAnalysis(2, Num(100), Arr(<<"a", "b">>), Arr(<<>>), 120),
     RawAnalysis(3, Num(100), Arr(<<"a", "b">>), Arr(<<"x">>), -3),
     RawAnalysis(2, Num(100), Undefined, Arr(<<>>), 70)}

SeqsUpTo(S, n) == UNION {[1..k -> S] : k \in 0..n}

Resolutions ==
    {[settled |-> "resolved",
      data |-> [analyses |-> Arr(s), recommendation |-> "Choisir le premier"],
      err |-> NoAxiosError] : s \in SeqsUpTo(Pool, MaxAnalyses)}
    \cup
    {[settled |-> "resolved",
      data |-> [analyses |-> Undefined, recommendation |-> "Choisir le premier"],
      err |-> NoAxiosError]}

Replies == Resolutions \cup Rejections

-----------------------------------------------------------------------------
\* AIServiceClient.analyzeQuotes

\* The request payload: camelCase to snake_case.
toPayloadQuote(q) ==
    [vendor_name |-> q.vendorName, content |-> q.content, category |-> q.category]

toPayload(qs) == [quotes |-> [i \in 1..Len(qs) |-> toPayloadQuote(qs[i])]]

\* Mutant: price: analysis.price || null, which turns a price of 0 into null.
toAnalysisDtoFalsyPrice(analysis) ==
    [vendorName |-> analysis.vendor_name,
     price |-> IF analysis.price.null \/ analysis.price.n = 0 THEN Null ELSE analysis.price,
     currency |-> analysis.currency, strengths |-> analysis.strengths,
     weaknesses |-> analysis.weaknesses, risks |-> analysis.risks,
     score |-> analysis.score, scoreReasoning |-> analysis.score_reasoning]

\* The response translation: snake_case to camelCase.
toAnalysisDto(analysis) ==
    [vendorName |-> analysis.vendor_name, price |-> analysis.price,
     currency |-> analysis.currency, strengths |-> analysis.strengths,
     weaknesses |-> analysis.weaknesses, risks |-> analysis.risks,
     score |-> analysis.score, scoreReasoning |-> analysis.score_reasoning]

toResultDto(data) ==
    [analyses |-> [i \in 1..Len(data.analyses.items) |->
                     toAnalysisDto(data.analyses.items[i])],
     recommendation |-> data.recommendation,
     analyzedAt |-> "now"]

NoResult == [analyses |-> <<>>, recommendation |-> "", analyzedAt |-> ""]

\* a || b on strings: the empty string is falsy.
orElse(a, b) == IF a # "" THEN a ELSE b

\* AIServiceClient.handleError
handleError(e) ==
    IF e.isAxiosError /\ e.code \in {"ECONNREFUSED", "ENOTFOUND"}
    THEN HttpException(SERVICE_UNAVAILABLE,
            <<"Le service d'analyse IA est temporairement indisponible. Veuillez réessayer dans quelques instants.">>,
            "Service Unavailable")
    ELSE IF e.isAxiosError /\ e.code \in {"ECONNABORTED", "ETIMEDOUT"}
    THEN HttpException(GATEWAY_TIMEOUT,
            <<"L'analyse prend trop de temps. Veuillez réduire le nombre de devis ou réessayer.">>,
            "Gateway Timeout")
    ELSE IF e.isAxiosError /\ e.hasResponse
    THEN LET aiErrorMessage ==
                 IF e.data.null THEN "Erreur inconnue du service IA"
                 ELSE orElse(e.data.detail,
                             orElse(e.data.message, "Erreur inconnue du service IA"))
         IN  HttpException(e.status,
                 <<"Erreur lors de l'analyse : ", aiErrorMessage>>,
                 "AI Service Error")
    ELSE HttpException(INTERNAL_SERVER_ERROR,
            <<"Une erreur inattendue est survenue lors de l'analyse des devis">>,
            "Internal Server Error")

\* The catch block of the earlier revision of AIServiceClient.analyzeQuotes.
catchBlock(e) ==
    IF e.isAxiosError /\ e.code = "ECONNREFUSED"
    THEN HttpException(SERVICE_UNAVAILABLE,
            <<"Le service IA est indisponible. Veuillez réessayer plus tard.">>, "")
    ELSE IF e.isAxiosError /\ e.hasResponse
    THEN IF e.data.null
         THEN TypeError   \* error.response.data.detail on a null body
         ELSE HttpException(e.status,
                 <<"Erreur du service IA : ", orElse(e.data.detail, e.message)>>, "")
    ELSE HttpException(INTERNAL_SERVER_ERROR,
            <<"Erreur lors de l'analyse des devis">>, "")

\* The error translation of the deployed revision.
translateError(e) ==
    IF cli = "handleError" THEN handleError(e) ELSE catchBlock(e)

\* What the try block catches once the call has settled with `resp`:
\* the rejection, or the TypeError of mapping an undefined analyses list.
caughtIn(resp) ==
    IF resp.settled = "rejected" THEN resp.err ELSE ThrownInTry

\* Whether the try block runs to its return.
clientReturns(resp) ==
    resp.settled = "resolved" /\ resp.data.analyses.defined

\* Mutant: any reply of the upstream counts as healthy.
checkHealthAnyReply(probe) == probe.settled = "resolved"

\* AIServiceClient.checkHealth: response.data.status === 'ok', and false on
\* anything the try block throws (a rejection, a timeout, a null body).
checkHealth(probe) ==
    IF probe.settled = "resolved" /\ ~probe.data.null
    THEN probe.data.status = "ok"
    ELSE FALSE

\* What GET / of the upstream can settle with; status "" is a body without
\* a status field.
ProbeBody(isNull, status) == [null |-> isNull, status |-> status]

Probes ==
    {[settled |-> "resolved", data |-> ProbeBody(FALSE, st), err |-> NoAxiosError] :
        st \in {"ok", "OK", "down", ""}}
    \cup
    {[settled |-> "resolved", data |-> ProbeBody(TRUE, ""), err |-> NoAxiosError]}
    \cup
    {[settled |-> "rejected", data |-> ProbeBody(TRUE, ""), err |-> NetworkError(c)] :
        c \in {"ECONNREFUSED", "ECONNABORTED"}}
    \cup
    {[settled |-> "rejected", data |-> ProbeBody(TRUE, ""),
      err |-> StatusError(INTERNAL_SERVER_ERROR, NoBody)]}

NoHealth == [status |-> "", backend |-> "", aiService |-> FALSE, timestamp |-> ""]

-----------------------------------------------------------------------------
\* QuotesService.analyzeQuotes

\* Mutant: (a, b) => a.score - b.score, an ascending sort.
compareAscending(a, b) == a.score - b.score

\* The comparator of the sort: (a, b) => b.score - a.score
compare(a, b) == b.score - a.score

\* Array.prototype.sort is stable: an element goes after every element the
\* comparator does not put behind it.
RECURSIVE insertSorted(_, _)
insertSorted(x, s) ==
    IF s = <<>> THEN <<x>>
    ELSE IF compare(Head(s), x) <= 0
         THEN <<Head(s)>> \o insertSorted(x, Tail(s))
         ELSE <<x>> \o s

RECURSIVE sort(_)
sort(s) ==
    IF s = <<>> THEN <<>>
    ELSE insertSorted(s[Len(s)], sort(SubSeq(s, 1, Len(s) - 1)))

\* The index at which the map over the analyses throws, 0 if it does not.
throwsAt(analyses) ==
    IF \E i \in 1..Len(analyses) : rulesThrow(analyses[i])
    THEN CHOOSE i \in 1..Len(analyses) :
            /\ rulesThrow(analyses[i])
            /\ \A j \in 1..(i - 1) : ~rulesThrow(analyses[j])
    ELSE 0

\* The earlier revision appends to analysis.scoreReasoning in place, so the
\* elements mapped before a throw at index k keep their longer reasoning.
mappedBefore(analyses, k) ==
    IF svc = "inline"
    THEN [i \in 1..Len(analyses) |->
            IF i < k
            THEN [analyses[i] EXCEPT
                    !.scoreReasoning = reasoningOf(analyses[i], SeparatorInline)]
            ELSE analyses[i]]
    ELSE analyses

\* Mutant: the mapped array is not assigned back, the raw analyses are sorted.
rankOnly(analyses) == sort(analyses)

\* result.analyses.map(applyBusinessRules) followed by the sort.
adjustAndRank(analyses) ==
    sort([i \in 1..Len(analyses) |-> adjust(analyses[i])])

\* Mutant: quotes.length >= 10 rejects a batch of exactly 10.
validateOffByOne(qs) ==
    IF Len(qs) < MinQuotes \/ Len(qs) >= MaxQuotes
    THEN BadRequestException("Maximum 10 devis par analyse")
    ELSE NoError

\* The batch-size validation: the exception thrown, NoError if none.
validate(qs) ==
    IF Len(qs) < MinQuotes
    THEN BadRequestException(
            "Veuillez soumettre au moins 2 devis pour une comparaison pertinente")
    ELSE IF Len(qs) > MaxQuotes
    THEN BadRequestException(
            IF svc = "rules"
            THEN "Maximum 10 devis par analyse pour garantir un temps de réponse acceptable"
            ELSE "Maximum 10 devis par analyse")
    ELSE NoError

-----------------------------------------------------------------------------
\* Requests.

Quote(i) == [vendorName |-> i, content |-> "devis", category |-> "Cybersecurity"]
Batch(n) == [i \in 1..n |-> Quote(i)]
Batches == {Batch(n) : n \in 0..MaxBatch}

Terminal == {"returned", "failed", "health"}

\* Mutant: the outbound call is issued before the size check.
SubmitPostFirst(r, qs) ==
    /\ pc[r] = "idle"
    /\ quotes' = [quotes EXCEPT ![r] = qs]
    /\ posted' = [posted EXCEPT ![r] = Append(@, toPayload(qs))]
    /\ IF validate(qs) # NoError
       THEN /\ error' = [error EXCEPT ![r] = validate(qs)]
            /\ pc' = [pc EXCEPT ![r] = "failed"]
       ELSE /\ pc' = [pc EXCEPT ![r] = "posting"]
            /\ error' = error
    /\ UNCHANGED <<svc, cli, response, result, health, aiHealthy>>
    /\ UNCHANGED ruleVars

\* POST /quotes/analyze reaches QuotesService.analyzeQuotes: the size check,
\* then the client builds the payload and issues the outbound call.
Submit(r, qs) ==
    /\ pc[r] = "idle"
    /\ quotes' = [quotes EXCEPT ![r] = qs]
    /\ IF validate(qs) # NoError
       THEN /\ error' = [error EXCEPT ![r] = validate(qs)]
            /\ pc' = [pc EXCEPT ![r] = "failed"]
            /\ posted' = posted
       ELSE /\ posted' = [posted EXCEPT ![r] = Append(@, toPayload(qs))]
            /\ pc' = [pc EXCEPT ![r] = "posting"]
            /\ error' = error
    /\ UNCHANGED <<svc, cli, response, result, health, aiHealthy>>
    /\ UNCHANGED ruleVars

\* The outbound call settles and AIServiceClient.analyzeQuotes resumes: it
\* translates the response and returns, or translates the error and throws.
ClientResume(r, resp) ==
    /\ pc[r] = "posting"
    /\ response' = [response EXCEPT ![r] = resp]
    /\ IF clientReturns(resp)
       THEN /\ result' = [result EXCEPT ![r] = toResultDto(resp.data)]
            /\ pc' = [pc EXCEPT ![r] = "translated"]
            /\ error' = error
       ELSE /\ error' = [error EXCEPT ![r] = translateError(caughtIn(resp))]
            /\ pc' = [pc EXCEPT ![r] = "failed"]
            /\ result' = result
    /\ UNCHANGED <<svc, cli, quotes, posted, health, aiHealthy>>
    /\ UNCHANGED ruleVars

\* Mutant: the client keeps its last result in a field of the shared instance
\* and the service adjusts that one, whichever request it belongs to.
ServiceResumeShared(r) ==
    /\ pc[r] = "translated"
    /\ LET s == CHOOSE s \in DOMAIN pc : pc[s] = "translated"
           k == throwsAt(result[s].analyses)
       IN  IF k # 0
           THEN /\ error' = [error EXCEPT ![r] = TypeError]
                /\ pc' = [pc EXCEPT ![r] = "failed"]
                /\ result' = [result EXCEPT
                       ![r].analyses = mappedBefore(result[s].analyses, k)]
           ELSE /\ result' = [result EXCEPT
                       ![r].analyses = adjustAndRank(result[s].analyses)]
                /\ pc' = [pc EXCEPT ![r] = "returned"]
                /\ error' = error
    /\ UNCHANGED <<svc, cli, quotes, posted, response, health, aiHealthy>>
    /\ UNCHANGED ruleVars

\* QuotesService.analyzeQuotes resumes with the client's result: the rules
\* are mapped over the analyses, the list is sorted, the result is returned.
ServiceResume(r) ==
    /\ pc[r] = "translated"
    /\ LET k == throwsAt(result[r].analyses)
       IN  IF k # 0
           THEN /\ error' = [error EXCEPT ![r] = TypeError]
                /\ pc' = [pc EXCEPT ![r] = "failed"]
                /\ result' = [result EXCEPT
                       ![r].analyses = mappedBefore(result[r].analyses, k)]
           ELSE /\ result' = [result EXCEPT
                       ![r].analyses = adjustAndRank(result[r].analyses)]
                /\ pc' = [pc EXCEPT ![r] = "returned"]
                /\ error' = error
    /\ UNCHANGED <<svc, cli, quotes, posted, response, health, aiHealthy>>
    /\ UNCHANGED ruleVars

\* GET /quotes/health reaches QuotesController.checkHealth: the probe is sent.
HealthRequest(r) ==
    /\ pc[r] = "idle"
    /\ pc' = [pc EXCEPT ![r] = "probing"]
    /\ UNCHANGED <<svc, cli, quotes, posted, response, result, error, health, aiHealthy>>
    /\ UNCHANGED ruleVars

\* The probe settles: AIServiceClient.checkHealth resumes after its await and
\* returns its boolean.
HealthResume(r, probe) ==
    /\ pc[r] = "probing"
    /\ response' = [response EXCEPT ![r] = probe]
    /\ aiHealthy' = [aiHealthy EXCEPT ![r] = checkHealth(probe)]
    /\ pc' = [pc EXCEPT ![r] = "probed"]
    /\ UNCHANGED <<svc, cli, quotes, posted, result, error, health>>
    /\ UNCHANGED ruleVars

\* QuotesController.checkHealth resumes with the boolean and builds the body.
HealthRespond(r) ==
    /\ pc[r] = "probed"
    /\ health' = [health EXCEPT ![r] =
           [status |-> IF aiHealthy[r] THEN "ok" ELSE "degraded",
            backend |-> "ok", aiService |-> aiHealthy[r], timestamp |-> "now"]]
    /\ pc' = [pc EXCEPT ![r] = "health"]
    /\ UNCHANGED <<svc, cli, quotes, posted, response, result, error, aiHealthy>>
    /\ UNCHANGED ruleVars

\* The HTTP exchange is over; nothing of it is kept.
Finish(r) ==
    /\ pc[r] \in Terminal
    /\ pc' = [pc EXCEPT ![r] = "idle"]
    /\ quotes' = [quotes EXCEPT ![r] = <<>>]
    /\ posted' = [posted EXCEPT ![r] = <<>>]
    /\ response' = [response EXCEPT ![r] = NoResponse]
    /\ result' = [result EXCEPT ![r] = NoResult]
    /\ error' = [error EXCEPT ![r] = NoError]
    /\ health' = [health EXCEPT ![r] = NoHealth]
    /\ aiHealthy' = [aiHealthy EXCEPT ![r] = FALSE]
    /\ UNCHANGED <<svc, cli>>
    /\ UNCHANGED ruleVars

-----------------------------------------------------------------------------
\* Specifications.

Requests == {1}

InitRequests(R) ==
    /\ pc = [r \in R |-> "idle"]
    /\ quotes = [r \in R |-> <<>>]
    /\ posted = [r \in R |-> <<>>]
    /\ response = [r \in R |-> NoResponse]
    /\ result = [r \in R |-> NoResult]
    /\ error = [r \in R |-> NoError]
    /\ health = [r \in R |-> NoHealth]
    /\ aiHealthy = [r \in R |-> FALSE]

InitBuild ==
    /\ svc \in {"rules", "inline"}
    /\ cli \in {"handleError", "catch"}

\* The service handling one inbound request at a time.
Init ==
    /\ InitBuild
    /\ InitRequests(Requests)
    /\ input = NoAnalysis
    /\ output = NoAnalysis
    /\ again = NoAnalysis
    /\ outcome = "none"

Next ==
    \E r \in Requests :
        \/ \E qs \in Batches : Submit(r, qs)
        \/ \E resp \in Replies : ClientResume(r, resp)
        \/ ServiceResume(r)
        \/ HealthRequest(r)
        \/ \E probe \in Probes : HealthResume(r, probe)
        \/ HealthRespond(r)
        \/ Finish(r)

Spec == Init /\ [][Next]_vars

\* The rule engine applied to every analysis of RuleInputs, and once more to
\* what it returned.
InitRules ==
    /\ InitBuild
    /\ InitRequests(Requests)
    /\ input \in RuleInputs
    /\ output = NoAnalysis
    /\ again = NoAnalysis
    /\ outcome = "none"

NextRules == ApplyRules \/ ApplyAgain

SpecRules == InitRules /\ [][NextRules]_vars

\* Several requests in flight at once on the one QuotesService and the one
\* AIServiceClient of the module (Nest providers are singletons); their
\* handlers interleave at every await.
MaxInFlight == 2
ConcurrentRequests == 1..MaxInFlight

ConcurrentBatches == {Batch(1), Batch(2), Batch(3)}

PoolA == RawAnalysis(1, Num(100), Arr(<<"a", "b", "c">>), Arr(<<>>), 80)
PoolB == RawAnalysis(2, Null, Arr(<<"a">>), Arr(<<"x", "y", "z", "w">>), 95)
PoolC == RawAnalysis(2, Num(100), Undefined, Arr(<<>>), 70)

ConcurrentReplies ==
    {[settled |-> "resolved",
      data |-> [analyses |-> a, recommendation |-> "Choisir le premier"],
      err |-> NoAxiosError] :
        a \in {Arr(<<>>), Arr(<<PoolA, PoolB>>), Arr(<<PoolB, PoolA>>),
               Arr(<<PoolB, PoolC>>), Undefined}}
    \cup
    {[settled |-> "rejected", data |-> NoData, err |-> NetworkError("ECONNREFUSED")],
     [settled |-> "rejected", data |-> NoData,
      err |-> StatusError(SERVICE_UNAVAILABLE,
                  [null |-> FALSE, detail |-> "quota", message |-> ""])]}

ConcurrentProbes ==
    {[settled |-> "resolved", data |-> ProbeBody(FALSE, "ok"), err |-> NoAxiosError],
     [settled |-> "rejected", data |-> ProbeBody(TRUE, ""),
      err |-> NetworkError("ECONNABORTED")]}

InitConcurrent ==
    /\ InitBuild
    /\ InitRequests(ConcurrentRequests)
    /\ input = NoAnalysis
    /\ output = NoAnalysis
    /\ again = NoAnalysis
    /\ outcome = "none"

NextConcurrent ==
    \E r \in ConcurrentRequests :
        \/ \E qs \in ConcurrentBatches : Submit(r, qs)
        \/ \E resp \in ConcurrentReplies : ClientResume(r, resp)
        \/ ServiceResume(r)
        \/ HealthRequest(r)
        \/ \E probe \in ConcurrentProbes : HealthResume(r, probe)
        \/ HealthRespond(r)
        \/ Finish(r)

SpecConcurrent == InitConcurrent /\ [][NextConcurrent]_vars

-----------------------------------------------------------------------------
\* Properties.

\* The states of a request that went through POST /quotes/analyze.
Analyzing(r) == pc[r] \in {"posting", "translated", "returned", "failed"}

Range(s) == {s[i] : i \in 1..Len(s)}
Count(s, x) == Cardinality({i \in 1..Len(s) : s[i] = x})
SameMultiset(s, t) ==
    /\ Len(s) = Len(t)
    /\ \A x \in Range(s) \cup Range(t) : Count(s, x) = Count(t, x)
SortedDescending(s) ==
    \A i \in 1..Len(s) : \A j \in 1..Len(s) : i < j => s[i].score >= s[j].score

\* C1: analyzeQuotes throws the 400 BadRequestException exactly when the batch
\* has fewer than 2 or more than 10 quotes; a batch of 2 to 10 quotes passes
\* the size check and its outbound call is issued.
C1_SizeCheck ==
    \A r \in DOMAIN pc :
        Analyzing(r) =>
            /\ (error[r].name = "BadRequestException" /\ error[r].status = 400)
                   <=> (Len(quotes[r]) < 2 \/ Len(quotes[r]) > 10)
            /\ (Len(quotes[r]) >= 2 /\ Len(quotes[r]) <= 10) => posted[r] # <<>>

\* A batch of exactly 10 quotes has passed the check and is being analysed.
C1_Witness ==
    \E r \in DOMAIN pc :
        pc[r] = "posting" /\ Len(quotes[r]) = 10 /\ Len(posted[r][1].quotes) = 10

\* C2: the adjusted score is max(0, raw - 10*[price is null]
\* - 5*[fewer than 2 strengths] - 10*[more than 3 risks]), all three tests on
\* the upstream values, the floor applied once to the sum.
C2_ScoreFormula ==
    outcome = "returned" =>
        LET total ==
                (IF input.price = Null THEN 10 ELSE 0)
                + (IF Len(input.strengths.items) < 2 THEN 5 ELSE 0)
                + (IF Len(input.risks.items) > 3 THEN 10 ELSE 0)
        IN  output.score =
                IF input.score - total > 0 THEN input.score - total ELSE 0

\* price = null, one strength, four risks, raw score 80: adjusted to 55.
C2_Witness ==
    /\ outcome = "returned"
    /\ input.price = Null
    /\ Len(input.strengths.items) = 1
    /\ Len(input.risks.items) = 4
    /\ input.score = 80
    /\ output.score = 55

\* C3: every analysis of a returned result has a score >= 0, however far
\* below 0 the upstream score less the penalties lies.
C3_ScoreNonNegative ==
    \A r \in DOMAIN pc :
        pc[r] = "returned" =>
            \A i \in 1..Len(result[r].analyses) : result[r].analyses[i].score >= 0

\* A result was returned for a reply holding a negative upstream score.
C3_Witness ==
    \E r \in DOMAIN pc :
        /\ pc[r] = "returned"
        /\ \E i \in 1..Len(response[r].data.analyses.items) :
               response[r].data.analyses.items[i].score < 0

\* The rules fire on none of: price present, at least 2 strengths, at most 3 risks.
NoRuleApplies(a) ==
    /\ a.price # Null
    /\ Len(a.strengths.items) >= 2
    /\ Len(a.risks.items) <= 3

\* C4 as stated: with price present, at least 2 strengths and at most 3 risks
\* the score and the reasoning are returned unchanged, for every raw score.
C4_Original ==
    (outcome = "returned" /\ NoRuleApplies(input)) =>
        /\ output.score = input.score
        /\ output.scoreReasoning = input.scoreReasoning

\* C4 amended: with price present, at least 2 strengths and at most 3 risks
\* the reasoning is returned unchanged and the score is the raw score when
\* that is >= 0, and 0 when the raw score is negative.
C4_UnchangedAboveFloor ==
    (outcome = "returned" /\ NoRuleApplies(input)) =>
        /\ output.scoreReasoning = input.scoreReasoning
        /\ output.score = (IF input.score >= 0 THEN input.score ELSE 0)

\* price = 100, three strengths, three risks, raw score 5: returned as it came.
C4_Witness ==
    /\ outcome = "returned"
    /\ input.price = Num(100)
    /\ Len(input.strengths.items) = 3
    /\ Len(input.risks.items) = 3
    /\ input.score = 5
    /\ output = input

\* The upstream's analyses of request r, and what adjusting each one gives.
Upstream(r) == response[r].data.analyses.items
AdjustedUpstream(r) ==
    [i \in 1..Len(Upstream(r)) |-> adjust(toAnalysisDto(Upstream(r)[i]))]

\* C5: the analyses of a returned result are in descending order of adjusted
\* score and are a permutation of the adjusted analyses.
C5_RankedPermutation ==
    \A r \in DOMAIN pc :
        pc[r] = "returned" =>
            /\ SortedDescending(result[r].analyses)
            /\ SameMultiset(result[r].analyses, AdjustedUpstream(r))

\* A returned result of three analyses that the sort had to reorder and that
\* holds two different analyses with the same adjusted score.
C5_Witness ==
    \E r \in DOMAIN pc :
        /\ pc[r] = "returned"
        /\ Len(result[r].analyses) = 3
        /\ ~SortedDescending(AdjustedUpstream(r))
        /\ \E i, j \in 1..3 :
               /\ result[r].analyses[i] # result[r].analyses[j]
               /\ result[r].analyses[i].score = result[r].analyses[j].score

\* C6: a returned result has as many analyses as quotes were submitted, and
\* every submitted vendor has exactly one analysis in it, whatever the
\* upstream replied.
C6_OneAnalysisPerQuote ==
    \A r \in DOMAIN pc :
        pc[r] = "returned" =>
            /\ Len(result[r].analyses) = Len(quotes[r])
            /\ \A q \in 1..Len(quotes[r]) :
                   Cardinality({i \in 1..Len(result[r].analyses) :
                       result[r].analyses[i].vendorName = quotes[r][q].vendorName}) = 1

\* The outbound call of request r failed: it was rejected, or its payload
\* could not be translated.
CallFailed(r) ==
    /\ pc[r] = "failed"
    /\ response[r].settled # "pending"
    /\ (response[r].settled = "rejected" \/ ~response[r].data.analyses.defined)

\* text is one of the segments of the message
Mentions(message, text) == \E i \in 1..Len(message) : message[i] = text

\* C7: a failed outbound call is surfaced as one categorized error: connection
\* refused or host not found as 503, a timeout as 504, a non-success upstream
\* response with the upstream's status code and its detail in the message,
\* anything else as 500.
C7_ErrorCategories ==
    \A r \in DOMAIN pc :
        CallFailed(r) =>
            LET e == response[r].err
                rejected == response[r].settled = "rejected"
            IN  /\ error[r].name = "HttpException"
                /\ error[r].status =
                       IF rejected /\ e.code \in {"ECONNREFUSED", "ENOTFOUND"} THEN 503
                       ELSE IF rejected /\ e.code \in {"ECONNABORTED", "ETIMEDOUT"} THEN 504
                       ELSE IF rejected /\ e.hasResponse THEN e.status
                       ELSE 500
                /\ (rejected /\ e.hasResponse /\ ~e.data.null /\ e.data.detail # "")
                       => Mentions(error[r].message, e.data.detail)

\* An analysis of the upstream that the rules cannot read.
Malformed(raw) == ~raw.strengths.defined \/ ~raw.risks.defined

\* C8: no partial success: a request that returns has no error and returns
\* every analysis of the upstream, adjusted and ranked, none of them
\* malformed; a request that does not return a result fails with an error.
C8_AllOrNothing ==
    \A r \in DOMAIN pc :
        /\ pc[r] = "returned" =>
               /\ error[r] = NoError
               /\ response[r].settled = "resolved"
               /\ response[r].data.analyses.defined
               /\ \A i \in 1..Len(Upstream(r)) : ~Malformed(Upstream(r)[i])
               /\ Len(result[r].analyses) = Len(Upstream(r))
               /\ \A i \in 1..Len(Upstream(r)) :
                      \E j \in 1..Len(result[r].analyses) :
                          result[r].analyses[j] = adjust(toAnalysisDto(Upstream(r)[i]))
               /\ SortedDescending(result[r].analyses)
        /\ pc[r] = "failed" => error[r] # NoError

\* The request failed as a whole because the third analysis of the reply was
\* malformed, the first two being well formed.
C8_Witness ==
    \E r \in DOMAIN pc :
        /\ pc[r] = "failed"
        /\ error[r] = TypeError
        /\ response[r].settled = "resolved"
        /\ Len(Upstream(r)) = 3
        /\ ~Malformed(Upstream(r)[1])
        /\ ~Malformed(Upstream(r)[2])
        /\ Malformed(Upstream(r)[3])

\* C9: checkHealth never raises; the health body reports aiService = true
\* only for a reply whose status field is exactly "ok", false for a probe that
\* throws, times out or carries another body, and status "degraded" exactly
\* when aiService is false, "ok" otherwise.
C9_HealthProbe ==
    \A r \in DOMAIN pc :
        /\ pc[r] \in {"probed", "health"} =>
               /\ error[r] = NoError
               /\ aiHealthy[r] =
                      (/\ response[r].settled = "resolved"
                       /\ ~response[r].data.null
                       /\ response[r].data.status = "ok")
        /\ pc[r] = "health" =>
               /\ health[r].aiService = aiHealthy[r]
               /\ health[r].status = (IF aiHealthy[r] THEN "ok" ELSE "degraded")
               /\ health[r].backend = "ok"

\* The upstream answered the probe with a status other than "ok": degraded.
C9_Witness ==
    \E r \in DOMAIN pc :
        /\ pc[r] = "health"
        /\ response[r].settled = "resolved"
        /\ ~response[r].data.null
        /\ response[r].data.status = "OK"
        /\ health[r].status = "degraded"
        /\ ~health[r].aiService

\* C10: a request issues at most one outbound call: exactly one when the
\* batch has 2 to 10 quotes, also after the call failed, and none when the
\* size check rejected the batch.
C10_AtMostOneCall ==
    \A r \in DOMAIN pc :
        /\ Len(posted[r]) <= 1
        /\ Analyzing(r) =>
               Len(posted[r]) =
                   (IF Len(quotes[r]) >= 2 /\ Len(quotes[r]) <= 10 THEN 1 ELSE 0)
        /\ ~Analyzing(r) => posted[r] = <<>>

\* The one outbound call of a request was rejected and the request failed
\* without a second call.
C10_Witness ==
    \E r \in DOMAIN pc :
        /\ pc[r] = "failed"
        /\ response[r].settled = "rejected"
        /\ Len(posted[r]) = 1

\* The fields of a returned analysis, and of an upstream analysis, other
\* than the score and the reasoning.
FrameOfReturned(a) ==
    <<a.vendorName, a.price, a.currency, a.strengths, a.weaknesses, a.risks>>
FrameOfUpstream(raw) ==
    <<raw.vendor_name, raw.price, raw.currency, raw.strengths, raw.weaknesses,
      raw.risks>>

\* C11: translation and adjustment change only score and reasoning: the
\* returned analyses carry, analysis for analysis, the vendor name, price
\* (null stays null, 0 stays 0), currency, strengths, weaknesses and risks of
\* the upstream's analyses, and the recommendation is the upstream's.
C11_FramePreserved ==
    \A r \in DOMAIN pc :
        pc[r] = "returned" =>
            /\ result[r].recommendation = response[r].data.recommendation
            /\ SameMultiset(
                   [i \in 1..Len(result[r].analyses) |->
                       FrameOfReturned(result[r].analyses[i])],
                   [i \in 1..Len(Upstream(r)) |-> FrameOfUpstream(Upstream(r)[i])])

\* A returned result that the sort reordered, holding an analysis with a null
\* price, one with a price of 0, and a strengths list in the upstream's order.
C11_Witness ==
    \E r \in DOMAIN pc :
        /\ pc[r] = "returned"
        /\ ~SortedDescending(AdjustedUpstream(r))
        /\ \E i, j, k \in 1..Len(result[r].analyses) :
               /\ result[r].analyses[i].price = Null
               /\ result[r].analyses[j].price = Num(0)
               /\ result[r].analyses[j].strengths = Arr(<<"b", "a">>)
               /\ result[r].analyses[k].score # Upstream(r)[k].score

\* The notes of the penalties that fire on a, rule 1 first, then 2, then 3.
FiredNotes(a) ==
    LET n1 == IF a.price = Null THEN <<"Prix non spécifié (-10 pts)">> ELSE <<>>
        n2 == IF Len(a.strengths.items) < 2
              THEN <<"Peu d'avantages identifiés (-5 pts)">> ELSE <<>>
        n3 == IF Len(a.risks.items) > 3
              THEN <<"Nombreux risques détectés (-10 pts)">> ELSE <<>>
    IN  n1 \o n2 \o n3

\* The notes with a ", " between two of them.
Delimited(notes) ==
    IF Len(notes) = 0 THEN <<>>
    ELSE IF Len(notes) = 1 THEN <<notes[1]>>
    ELSE IF Len(notes) = 2 THEN <<notes[1], ", ", notes[2]>>
    ELSE <<notes[1], ", ", notes[2], ", ", notes[3]>>

\* The reasoning expected of a with the given separator segment.
ExpectedReasoning(a, separator) ==
    IF FiredNotes(a) = <<>> THEN a.scoreReasoning
    ELSE a.scoreReasoning \o <<separator>> \o Delimited(FiredNotes(a))

\* C12 as stated: the adjusted reasoning is the upstream reasoning verbatim
\* when no penalty fired, and otherwise the upstream reasoning, the one
\* segment " | Ajustements métier : ", and the notes of the fired penalties
\* in the order rule 1, rule 2, rule 3, joined by a delimiter.
C12_Original ==
    [][(outcome = "none" /\ outcome' = "returned") =>
           output'.scoreReasoning =
               ExpectedReasoning(input, " | Ajustements métier : ")]_vars

\* C12 amended: as stated, the separator segment being
\* " | Ajustements métier : " in applyBusinessRules and " | Ajustements : "
\* in the earlier revision of analyzeQuotes, and the delimiter ", ".
C12_ReasoningText ==
    [][(outcome = "none" /\ outcome' = "returned") =>
           output'.scoreReasoning =
               ExpectedReasoning(input,
                   IF svc = "rules" THEN " | Ajustements métier : "
                   ELSE " | Ajustements : ")]_vars

\* All three penalties fired on a non-empty reasoning: seven segments.
C12_Witness ==
    /\ outcome = "returned"
    /\ Len(FiredNotes(input)) = 3
    /\ Len(output.scoreReasoning) = 7
    /\ output.scoreReasoning[1] = "Offre solide"
    /\ output.scoreReasoning[3] = "Prix non spécifié (-10 pts)"
    /\ output.scoreReasoning[7] = "Nombreux risques détectés (-10 pts)"

\* The sum of the penalties that fire on a.
PenaltyTotal(a) ==
    (IF a.price = Null THEN 10 ELSE 0)
    + (IF Len(a.strengths.items) < 2 THEN 5 ELSE 0)
    + (IF Len(a.risks.items) > 3 THEN 10 ELSE 0)

\* The adjustment segment the deployed revision appends for a.
AdjustmentSegment(a) ==
    <<IF svc = "rules" THEN " | Ajustements métier : " ELSE " | Ajustements : ">>
    \o Delimited(FiredNotes(a))

\* The reasoning a carried before the segment seg, with which it ends, was
\* appended to it.
ReasoningBefore(a, seg) ==
    SubSeq(a.scoreReasoning, 1, Len(a.scoreReasoning) - Len(seg))

\* C13 as stated: when a penalty fires on a, adjust(adjust(a)) has the penalty
\* total subtracted twice from the score and the adjustment segment appended
\* twice to the reasoning, and differs from adjust(a).
C13_Original ==
    [][(outcome = "returned" /\ outcome' = "reapplied" /\ FiredNotes(input) # <<>>) =>
           LET seg == AdjustmentSegment(input)
               upstream == ReasoningBefore(output, seg)
           IN  /\ output.scoreReasoning = upstream \o seg
               /\ again'.score = input.score - 2 * PenaltyTotal(input)
               /\ again'.scoreReasoning = upstream \o seg \o seg
               /\ again' # output]_vars

\* C13 amended: when a penalty fires on a, adjust(adjust(a)) has the score
\* max(0, raw - 2 * total), the floor being applied by each call, and the
\* adjustment segment appended twice to the reasoning, and differs from what
\* adjust(a) returned; the earlier revision also appends the segment to the
\* object the second call is given, applyBusinessRules leaves it alone.
C13_AppliedTwice ==
    [][(outcome = "returned" /\ outcome' = "reapplied" /\ FiredNotes(input) # <<>>) =>
           LET seg == AdjustmentSegment(input)
               upstream == ReasoningBefore(output, seg)
               twice == input.score - 2 * PenaltyTotal(input)
           IN  /\ output.scoreReasoning = upstream \o seg
               /\ again'.score = (IF twice > 0 THEN twice ELSE 0)
               /\ again'.scoreReasoning = upstream \o seg \o seg
               /\ again' # output
               /\ output'.score = output.score
               /\ output'.scoreReasoning =
                      (IF svc = "rules" THEN output.scoreReasoning
                       ELSE again'.scoreReasoning)]_vars

\* The three penalties applied twice to a raw score of 80: 55, then 30.
C13_Witness ==
    /\ outcome = "reapplied"
    /\ Len(FiredNotes(input)) = 3
    /\ input.score = 80
    /\ output.score = 55
    /\ again.score = 30
    /\ Len(again.scoreReasoning) = 13
    /\ again.scoreReasoning[1] = "Offre solide"

\* C14: every score of a returned result lies in 0..100, for every raw score
\* of the upstream.
C14_ScoreWithinScale ==
    \A r \in DOMAIN pc :
        pc[r] = "returned" =>
            \A j \in 1..Len(result[r].analyses) :
                /\ result[r].analyses[j].score >= 0
                /\ result[r].analyses[j].score <= 100

\* What analyzeQuotes gives for the batch qs when its outbound call settles
\* with resp and no other request is being handled.
SoloOutcome(qs, resp) ==
    IF Len(qs) < 2 \/ Len(qs) > 10
    THEN [pc |-> "failed", error |-> validate(qs), result |-> NoResult]
    ELSE IF resp.settled = "rejected"
    THEN [pc |-> "failed", error |-> translateError(resp.err), result |-> NoResult]
    ELSE IF ~resp.data.analyses.defined
    THEN [pc |-> "failed", error |-> translateError(ThrownInTry), result |-> NoResult]
    ELSE IF \E i \in 1..Len(resp.data.analyses.items) :
                Malformed(resp.data.analyses.items[i])
    THEN [pc |-> "failed", error |-> TypeError, result |-> NoResult]
    ELSE [pc |-> "returned", error |-> NoError,
          result |->
              [analyses |->
                   sort([i \in 1..Len(resp.data.analyses.items) |->
                            adjust(toAnalysisDto(resp.data.analyses.items[i]))]),
               recommendation |-> resp.data.recommendation,
               analyzedAt |-> "now"]]

\* C15: requests are independent: with several requests in flight and their
\* upstream calls settling in any order, a request ends as it would alone with
\* the same batch and the same upstream reply, a health request reports its
\* own probe, and a request that is over leaves nothing behind.
C15_RequestsIndependent ==
    \A r \in DOMAIN pc :
        /\ pc[r] \in {"returned", "failed"} =>
               LET solo == SoloOutcome(quotes[r], response[r])
               IN  /\ pc[r] = solo.pc
                   /\ error[r] = solo.error
                   /\ pc[r] = "returned" => result[r] = solo.result
        /\ pc[r] = "posting" => posted[r] = <<toPayload(quotes[r])>>
        /\ pc[r] = "translated" => result[r] = toResultDto(response[r].data)
        /\ pc[r] \in {"probed", "health"} =>
               aiHealthy[r] =
                   (response[r].settled = "resolved" /\ response[r].data.status = "ok")
        /\ pc[r] = "health" => health[r].aiService = aiHealthy[r]
        /\ pc[r] = "idle" =>
               /\ quotes[r] = <<>> /\ posted[r] = <<>>
               /\ response[r] = NoResponse /\ result[r] = NoResult
               /\ error[r] = NoError /\ health[r] = NoHealth
               /\ ~aiHealthy[r]

\* Two requests in flight with different replies: the second has returned its
\* two analyses while the first, whose reply is in, has not been adjusted yet.
C15_Witness ==
    /\ {1, 2} \subseteq DOMAIN pc
    /\ pc[1] = "translated"
    /\ pc[2] = "returned"
    /\ response[1] # response[2]
    /\ Len(result[1].analyses) = 2
    /\ Len(result[2].analyses) = 2

====
